---------------------------- MODULE Spec2Model ----------------------------
(***************************************************************************)
(* A model of babysh.c: the prompt loop of main(), the line reader and     *)
(* tokenizer, the builtins cd / status / exit, the launcher cmdExecute()   *)
(* and the child processes it forks.                                       *)
(*                                                                         *)
(* The engine is one control thread; its position is pc:                   *)
(*   "sweep"   at the top of the while loop, before the reap sweep         *)
(*   "prompt"  after the sweep, about to read and process one line         *)
(*   "fgwait"  blocked in waitpid() on a foreground child                  *)
(*   "exited"  the engine called exit()                                    *)
(*   "crashed" an out-of-bounds scan of bgOpen ran into unmapped memory    *)
(* Children run concurrently with it; the kernel and the user supply the   *)
(* inputs: the line typed, the result of open/fork/chdir/waitpid, the exit *)
(* of a child and the delivery of signals.                                 *)
(***************************************************************************)
EXTENDS Integers, Sequences, FiniteSets, TLC

(***************************************************************************)
(* Sizes.  The three #defines are scaled down; every array keeps its shape *)
(* (userInput has MAX_LINE_LENGTH + 1 cells, bgOpen MAX_PROCESSES cells).  *)
(***************************************************************************)
MAX_LINE_LENGTH == 9
MAX_ARGS == 5
MAX_PROCESSES == 2
IS_PROCESS_FINISHED == 0
EXIT_SUCCESS == 0
EXIT_FAILURE == 1
SIGINT == 2
SIGKILL == 9

\* The -1 that main() stores in every cell of bgOpen ("non-valid process id").
UNUSED == 0 - 1
\* Pointer values of inputArgs that are not offsets into userInput.
NULL == 0 - 1
UNINIT == 0 - 2

\* Process ids the kernel hands out: enough to fill the table and overflow it.
Pids == 1 .. (MAX_PROCESSES + 1)
\* Exit codes of the programs run; a child whose dup2 or exec fails exits
\* with EXIT_FAILURE.
ProgramCodes == {7}
ExitCodes == ProgramCodes \cup {EXIT_FAILURE}
\* Signals that may terminate a child.
Signals == {SIGINT, SIGKILL}

(***************************************************************************)
(* Characters and lines.  A line is the sequence of characters typed       *)
(* before the newline; EOF stands for fgets() returning NULL.              *)
(***************************************************************************)
NUL == "NUL"
UNK == "?"
EOF == <<"EOF">>

\* Every line of Lines is typed with trailing spaces up to Width characters.
Width == 7

RECURSIVE Pad(_)
Pad(s) == IF Len(s) >= Width THEN s ELSE Pad(Append(s, " "))

L_blank == <<>>
L_tab == <<"\t">>
L_comment == <<"#", "c">>
L_cd == <<"c", "d">>
L_cd_x == <<"c", "d", " ", "x">>
L_status == <<"s", "t", "a", "t", "u", "s">>
L_exit == <<"e", "x", "i", "t">>
L_p == <<"p">>
L_p_bg == <<"p", " ", "&">>
L_p_in == <<"p", " ", "<", " ", "f">>
L_p_out == <<"p", " ", ">", " ", "f">>
L_p_in_bg == <<"p", " ", "<", " ", "f", " ", "&">>
L_p_x_bg == <<"p", " ", "x", " ", "&">>
L_p_bg_x == <<"p", " ", "&", " ", "x">>
L_in == <<"<">>
L_p_in_only == <<"p", " ", "<">>

\* The lines of a session about job control, and those of a session that
\* exercises every kind of line.
JobLines ==
    { Pad(l) : l \in { L_cd_x, L_status, L_exit, L_p, L_p_bg } }

Lines ==
    { Pad(l) : l \in { L_blank, L_tab, L_comment, L_cd, L_cd_x, L_status, L_exit,
                       L_p, L_p_bg, L_p_in, L_p_out, L_p_in_bg,
                       L_p_x_bg, L_p_bg_x, L_in, L_p_in_only } }

BufIdx == 0 .. MAX_LINE_LENGTH
ArgIdx == 0 .. (MAX_ARGS - 1)
Slots == 0 .. (MAX_PROCESSES - 1)

\* The character at position i of the buffer; nothing is read past its end.
At(buf, i) == IF i \in BufIdx THEN buf[i] ELSE NUL

(***************************************************************************)
(* getInput(): fgets() stores the line, its newline and a terminating NUL; *)
(* the newline is then overwritten by NUL.  Cells past that keep what an   *)
(* earlier line left there.  At end of input fgets() stores nothing.       *)
(***************************************************************************)
GetInput(input, line) ==
    IF line = EOF THEN input
    ELSE [i \in BufIdx |->
            IF i < Len(line) THEN line[i + 1]
            ELSE IF i <= Len(line) + 1 THEN NUL
            ELSE input[i]]

(***************************************************************************)
(* strtok(input, " "): tokens are maximal runs of characters other than    *)
(* the space; the delimiter that ends a token is overwritten by NUL.       *)
(***************************************************************************)
RECURSIVE SkipSpaces(_, _)
SkipSpaces(buf, i) ==
    IF At(buf, i) = " " THEN SkipSpaces(buf, i + 1) ELSE i

RECURSIVE TokenEnd(_, _)
TokenEnd(buf, i) ==
    IF At(buf, i) \in {" ", NUL} THEN i ELSE TokenEnd(buf, i + 1)

RECURSIVE Strtok(_, _, _)
Strtok(buf, i, offs) ==
    LET s == SkipSpaces(buf, i)
    IN  IF At(buf, s) = NUL THEN [buf |-> buf, offs |-> offs]
        ELSE LET e == TokenEnd(buf, s)
             IN  IF At(buf, e) = NUL
                 THEN [buf |-> buf, offs |-> Append(offs, s)]
                 ELSE Strtok([buf EXCEPT ![e] = NUL], e + 1, Append(offs, s))

(***************************************************************************)
(* parseInput(): args[0..n-1] point at the n tokens, args[n] is NULL, and  *)
(* the cells after it keep their old pointers.                             *)
(***************************************************************************)
ParseInput(input, args) ==
    LET r == Strtok(input, 0, <<>>)
        n == Len(r.offs)
    IN  [buf  |-> r.buf,
         args |-> [k \in ArgIdx |->
                     IF k < n THEN r.offs[k + 1]
                     ELSE IF k = n THEN NULL
                     ELSE args[k]]]

\* The C string that starts at offset off of the buffer.
RECURSIVE CStr(_, _)
CStr(buf, off) ==
    IF At(buf, off) = NUL THEN <<>> ELSE <<At(buf, off)>> \o CStr(buf, off + 1)

\* Number of pointers before the first NULL of args.
RECURSIVE ArgCount(_, _)
ArgCount(args, k) ==
    IF k \notin ArgIdx \/ args[k] = NULL THEN k ELSE ArgCount(args, k + 1)

\* The strings args[0], args[1], ... up to the first NULL: the vector
\* execvp(args[0], args) hands to the program, line 497.
ArgVector(buf, args) ==
    [k \in 1 .. ArgCount(args, 0) |-> CStr(buf, args[k - 1])]

\* strcmp(args[position], tok) == 0 for some position before the first NULL.
HasToken(buf, args, tok) ==
    \E k \in 0 .. (ArgCount(args, 0) - 1) : CStr(buf, args[k]) = tok

isInputRedirected(buf, args) == HasToken(buf, args, <<"<">>)

isOutputRedirected(buf, args) == HasToken(buf, args, <<">">>)

\* isBackground(): whether "&" occurs, and args with the first "&" set to NULL.
isBackground(buf, args) ==
    LET hits == {k \in 0 .. (ArgCount(args, 0) - 1) : CStr(buf, args[k]) = <<"&">>}
    IN  IF hits = {} THEN [found |-> FALSE, args |-> args]
        ELSE LET pos == CHOOSE k \in hits : \A j \in hits : k <= j
             IN  [found |-> TRUE, args |-> [args EXCEPT ![pos] = NULL]]


(***************************************************************************)
(* What the user sees: one record per printf()/perror() call, holding the  *)
(* format string and its arguments (a, b: the %d arguments, s: the %s      *)
(* argument).                                                              *)
(***************************************************************************)
Msg(fmt, a, b, s) == [fmt |-> fmt, a |-> a, b |-> b, s |-> s]

\* The characters of a %s argument, as one string.
RECURSIVE Join(_)
Join(s) == IF s = <<>> THEN "" ELSE Head(s) \o Join(Tail(s))

\* The text printf() writes to standard output for a message: %d is the
\* decimal numeral of the argument, %s the string argument.
Printf(m) ==
    CASE m.fmt = "background pid %d is done: "
            -> "background pid " \o ToString(m.a) \o " is done: "
      [] m.fmt = "exit value %d\n"
            -> "exit value " \o ToString(m.a) \o "\n"
      [] m.fmt = "terminated by signal %d\n"
            -> "terminated by signal " \o ToString(m.a) \o "\n"
      [] m.fmt = "background pid is %d\n"
            -> "background pid is " \o ToString(m.a) \o "\n"
      [] m.fmt = "cd: %s: No such file or directory\n"
            -> "cd: " \o Join(m.s) \o ": No such file or directory\n"
      [] m.fmt = "File Error: cannot open %s for input\n"
            -> "File Error: cannot open " \o Join(m.s) \o " for input\n"
      [] m.fmt = "File Error: cannot open %s for ouput\n"
            -> "File Error: cannot open " \o Join(m.s) \o " for ouput\n"
      [] OTHER -> m.fmt

\* The messages written by perror(), which go to standard error.
Perrors == {"wait failed\n", "wait failed", "kill failed", "fork failed"}

\* The text a sequence of messages leaves on standard output.
RECURSIVE StdoutText(_)
StdoutText(msgs) ==
    IF msgs = <<>> THEN ""
    ELSE (IF Head(msgs).fmt \in Perrors THEN "" ELSE Printf(Head(msgs)))
         \o StdoutText(Tail(msgs))

\* Wait statuses: WIFEXITED with WEXITSTATUS, or WIFSIGNALED with WTERMSIG.
Exited(n) == <<"exit", n>>
Signaled(s) == <<"sig", s>>
WIFEXITED(ws) == ws[1] = "exit"
WIFSIGNALED(ws) == ws[1] = "sig"
WaitStatuses == {Exited(n) : n \in ExitCodes} \cup {Signaled(s) : s \in Signals}
\* What an int that was never assigned may hold when it is read as a wait
\* status: one value for each way lines 535-549 can take it.
GarbageStatuses == {Exited(EXIT_SUCCESS), Signaled(SIGINT), <<"other", 0>>}

\* A child process: st is "forked" (before its sigaction), "running" (its
\* program image runs) or "zombie" (terminated, not yet waited for); bg tells
\* whether a live child was launched in the background; prog is the name a
\* forked child will pass to exec; ws is the wait status of a zombie.
NoProc == [st |-> "none", bg |-> FALSE, prog |-> <<>>, ws |-> <<"none", 0>>]
Zombie(ws) == [st |-> "zombie", bg |-> FALSE, prog |-> <<>>, ws |-> ws]
Live(proc) == proc.st \in {"forked", "running"}

VARIABLES
    pc,           \* position of the engine's control thread
    userInput,    \* main(): char userInput[MAX_LINE_LENGTH + 1]
    inputArgs,    \* main(): char *inputArgs[MAX_ARGS], offsets into userInput
    status,       \* main(): int status
    termination,  \* main(): int termination
    bgOpen,       \* main(): pid_t bgOpen[MAX_PROCESSES]
    procs,        \* the children of the engine, by pid
    fgPid,        \* cmdExecute(): cpid of the foreground child waited for
    op,           \* history: what the handler of the last line did
    out,          \* the messages the engine's last step printed, in order
    lastFg,       \* history: the wait status the last foreground wait returned
    since         \* history: what else wrote status or termination since then

vars ==
    <<pc, userInput, inputArgs, status, termination, bgOpen, procs, fgPid,
      op, out, lastFg, since>>

\* name: the branch the handler took; err: it printed an error message.
Op(name, err) == [name |-> name, err |-> err]

\* since is "nothing", "failure" (a handler or a sweep stored EXIT_FAILURE in
\* status) or "overflow" (lines 528-549 ran on variables never assigned).
Failure(s) == IF s = "overflow" THEN s ELSE "failure"

(***************************************************************************)
(* main(), lines 46-65: status and termination are 0, every cell of bgOpen *)
(* is -1, SIGINT is ignored.  userInput and inputArgs are not initialized. *)
(***************************************************************************)
EngineDisposition == "ign"

Init ==
    /\ pc = "sweep"
    /\ userInput = [i \in BufIdx |-> UNK]
    /\ inputArgs = [k \in ArgIdx |-> UNINIT]
    /\ status = 0
    /\ termination = 0
    /\ bgOpen = [i \in Slots |-> UNUSED]
    /\ procs = [p \in Pids |-> NoProc]
    /\ fgPid = 0
    /\ op = Op("init", FALSE)
    /\ out = <<>>
    /\ lastFg = <<"none", 0>>
    /\ since = "nothing"

(***************************************************************************)
(* The reap sweep, main() lines 71-115.                                    *)
(***************************************************************************)
\* The index at which a scan "while (bgOpen[bgCounter] != -1)" stops:
\* the first cell holding -1, or MAX_PROCESSES when no cell does (the scan
\* then reads past the end of the array).
ScanEnd(tbl) ==
    IF \E i \in Slots : tbl[i] = UNUSED
    THEN CHOOSE i \in Slots : tbl[i] = UNUSED /\ \A j \in Slots : j < i => tbl[j] # UNUSED
    ELSE MAX_PROCESSES

\* What the cell past the end of the array may do to a scan: hold -1 (the
\* scan stops), hold a value that is no child of the engine (the system call
\* on it fails and the next cell holds -1), or start a run of cells without
\* -1 that ends at unmapped memory.
OobOutcomes == {"stop", "garbage", "crash"}

\* A sweep that stored the exit code of the child it reaped.
SweepStatus_Reaped(st, ws) == IF WIFEXITED(ws) THEN ws[2] ELSE st

\* status after a background child was reaped: line 85-105 leaves it alone.
SweepStatus(st, ws) == st

\* A sweep that printed the exit code where the pid belongs.
DoneMsgs_NoPid(pid, ws) ==
    <<Msg("background pid %d is done: ", ws[2], 0, <<>>)>>
    \o (IF WIFEXITED(ws) THEN <<Msg("exit value %d\n", ws[2], 0, <<>>)>> ELSE <<>>)
    \o (IF WIFSIGNALED(ws) THEN <<Msg("terminated by signal %d\n", ws[2], 0, <<>>)>> ELSE <<>>)

\* A sweep that announced a reaped child twice.
DoneMsgs_Twice(pid, ws) ==
    <<Msg("background pid %d is done: ", pid, 0, <<>>),
      Msg("background pid %d is done: ", pid, 0, <<>>)>>
    \o (IF WIFEXITED(ws) THEN <<Msg("exit value %d\n", ws[2], 0, <<>>)>> ELSE <<>>)
    \o (IF WIFSIGNALED(ws) THEN <<Msg("terminated by signal %d\n", ws[2], 0, <<>>)>> ELSE <<>>)

\* The messages of one reaped child, lines 87-101.
DoneMsgs(pid, ws) ==
    <<Msg("background pid %d is done: ", pid, 0, <<>>)>>
    \o (IF WIFEXITED(ws) THEN <<Msg("exit value %d\n", ws[2], 0, <<>>)>> ELSE <<>>)
    \o (IF WIFSIGNALED(ws) THEN <<Msg("terminated by signal %d\n", ws[2], 0, <<>>)>> ELSE <<>>)

\* The loop body for the cells i .. end-1 of the array.  Each of them holds
\* 0 or the pid of a child not yet waited for, and SIGCHLD has its default
\* disposition, so that waitpid(curPid, ..., WNOHANG) returns curPid (the
\* child is a zombie) or 0 (it is not), never -1.
RECURSIVE SweepFrom(_, _, _)
SweepFrom(i, end, acc) ==
    IF i >= end \/ i \notin Slots THEN acc
    ELSE LET curPid == acc.bgOpen[i]
         IN  IF curPid = IS_PROCESS_FINISHED THEN SweepFrom(i + 1, end, acc)
             ELSE IF acc.procs[curPid].st = "zombie"
             THEN SweepFrom(i + 1, end,
                    [acc EXCEPT !.status = SweepStatus(@, acc.procs[curPid].ws),
                                !.out = @ \o DoneMsgs(curPid, acc.procs[curPid].ws),
                                !.bgOpen = [@ EXCEPT ![i] = IS_PROCESS_FINISHED],
                                !.procs = [@ EXCEPT ![curPid] = NoProc]])
             ELSE SweepFrom(i + 1, end, acc)

\* The whole sweep and the prompt; oobv is what a scan that leaves the
\* array finds.  For a cell out of bounds that holds no pid of a child,
\* waitpid() returns -1: lines 79-84.
Sweep(oobv) ==
    /\ pc = "sweep"
    /\ oobv \in OobOutcomes
    /\ LET end == ScanEnd(bgOpen)
           oob == end = MAX_PROCESSES
           r == SweepFrom(0, end,
                  [bgOpen |-> bgOpen, procs |-> procs, status |-> status,
                   out |-> <<>>])
       IN  /\ oob \/ oobv = "stop"
           /\ bgOpen' = r.bgOpen
           /\ procs' = r.procs
           /\ status' = IF oob /\ oobv = "garbage" THEN EXIT_FAILURE ELSE r.status
           /\ pc' = IF oob /\ oobv = "crash" THEN "crashed" ELSE "prompt"
           /\ out' = r.out
                     \o (IF oob /\ oobv = "garbage"
                         THEN <<Msg("wait failed\n", 0, 0, <<>>)>> ELSE <<>>)
                     \o (IF oob /\ oobv = "crash" THEN <<>> ELSE <<Msg(": ", 0, 0, <<>>)>>)
           /\ since' = IF oob /\ oobv = "garbage" THEN Failure(since) ELSE since
    /\ UNCHANGED <<userInput, inputArgs, termination, fgPid, op, lastFg>>


(***************************************************************************)
(* The builtins.  Each handler is given the buffer and the argument list   *)
(* parseInput() produced.                                                  *)
(***************************************************************************)
\* processArgs() lines 215-219: a blank line or a comment.
NoOp(buf, args) ==
    /\ inputArgs' = args
    /\ pc' = "sweep"
    /\ op' = Op("noop", FALSE)
    /\ out' = <<>>
    /\ UNCHANGED <<status, termination, bgOpen, procs, fgPid, lastFg, since>>

\* status after chdir() returned -1, line 273.
CdFailStatus(st) == EXIT_FAILURE

\* cmdChangeDir(), lines 256-276; ok is the result of chdir().
CmdChangeDir(buf, args, ok) ==
    LET failed == args[1] # NULL /\ ~ok
    IN  /\ inputArgs' = args
        /\ status' = IF failed THEN CdFailStatus(status) ELSE status
        /\ out' = IF failed
                  THEN <<Msg("cd: %s: No such file or directory\n", 0, 0,
                             CStr(buf, args[1]))>>
                  ELSE <<>>
        /\ op' = Op("cd", failed)
        /\ since' = IF failed THEN Failure(since) ELSE since
        /\ pc' = "sweep"
        /\ UNCHANGED <<termination, bgOpen, procs, fgPid, lastFg>>

\* A cmdStatus() that tested termination >= 0.
StatusReport_SignalFirst(st, term) ==
    IF term >= 0
    THEN Msg("terminated by signal %d\n", term, 0, <<>>)
    ELSE Msg("exit value %d\n", st, 0, <<>>)

\* cmdStatus(), lines 295-307: the one message it prints.
StatusReport(st, term) ==
    IF term > 0
    THEN Msg("terminated by signal %d\n", term, 0, <<>>)
    ELSE Msg("exit value %d\n", st, 0, <<>>)

CmdStatus(buf, args) ==
    /\ inputArgs' = args
    /\ out' = <<StatusReport(status, termination)>>
    /\ op' = Op("status", FALSE)
    /\ pc' = "sweep"
    /\ UNCHANGED <<status, termination, bgOpen, procs, fgPid, lastFg, since>>

\* kill(curPid, SIGKILL), line 333: the child terminates unless it already has.
Killed(proc) == IF Live(proc) THEN Zombie(Signaled(SIGKILL)) ELSE proc

\* The pids cmdExit() sends SIGKILL to: the cells before the first -1 that
\* do not hold IS_PROCESS_FINISHED, lines 328-338.
ExitTargets(tbl) ==
    {tbl[i] : i \in {j \in Slots : j < ScanEnd(tbl) /\ tbl[j] # IS_PROCESS_FINISHED}}

\* cmdExit(), lines 323-341.  When no cell holds -1 the scan reads past the
\* end of the array: oobv is what it finds there.
CmdExit(buf, args, oobv) ==
    LET end == ScanEnd(bgOpen)
        oob == end = MAX_PROCESSES
    IN  /\ oob \/ oobv = "stop"
        /\ inputArgs' = args
        /\ procs' = [p \in Pids |->
                       IF p \in ExitTargets(bgOpen) THEN Killed(procs[p]) ELSE procs[p]]
        /\ pc' = IF oob /\ oobv = "crash" THEN "crashed" ELSE "exited"
        /\ out' = IF oob /\ oobv = "garbage"
                  THEN <<Msg("kill failed", 0, 0, <<>>)>> ELSE <<>>
        /\ op' = Op("exit", oob /\ oobv = "garbage")
        /\ UNCHANGED <<status, termination, bgOpen, fgPid, lastFg, since>>

(***************************************************************************)
(* cmdExecute(), lines 366-551.                                            *)
(***************************************************************************)
\* Lines 373-375: the three scans of the argument list.  isBackground()
\* runs last and overwrites the "&" it finds, so the redirection target
\* args[2] is read from the list it leaves.
Directive(buf, args) ==
    LET B == isBackground(buf, args)
    IN  [buf    |-> buf,
         args   |-> B.args,
         rIn    |-> isInputRedirected(buf, args),
         rOut   |-> isOutputRedirected(buf, args),
         bg     |-> B.found,
         prog   |-> IF B.args[0] >= 0 THEN CStr(buf, B.args[0]) ELSE <<>>,
         target |-> B.args[2]]

\* The string printf("%s", args[2]) shows.
TargetStr(d) ==
    IF d.target >= 0 THEN CStr(d.buf, d.target)
    ELSE IF d.target = NULL THEN <<"(null)">>
    ELSE <<UNK>>

\* Lines 490-498: the vector the child hands to exec: args[0] alone when
\* the command is redirected (execlp), the whole list otherwise (execvp).
ExecArgv(d) ==
    IF d.rIn \/ d.rOut THEN <<d.prog>> ELSE ArgVector(d.buf, d.args)

\* Whether every open() before the fork can succeed: open(NULL, ...) cannot.
OpensCanSucceed(d) == (d.rIn \/ d.rOut) => d.target # NULL

\* A failed open() that left status alone.
OpenFailStatus_Kept(st) == st

\* status after a failed open(), lines 391, 410, 425.
OpenFailStatus(st) == EXIT_FAILURE

\* Lines 382-393.  Taken when open("/dev/null") fails, and possibly when the
\* command is redirected: inputFile (outputFile) is then compared with -1
\* before it was assigned.
ExecDevNullFail(d) ==
    /\ d.bg
    /\ status' = OpenFailStatus(status)
    /\ out' = <<Msg("cannot open /dev/null\n", 0, 0, <<>>)>>
    /\ op' = Op("open_fail", TRUE)
    /\ since' = Failure(since)
    /\ pc' = "sweep"
    /\ UNCHANGED <<termination, bgOpen, procs, fgPid, lastFg>>

\* Lines 404-412 (which = "input") and 419-427 (which = "output").
ExecOpenFail(d, which) ==
    /\ \/ which = "input" /\ d.rIn
       \/ which = "output" /\ d.rOut /\ (d.rIn => d.target # NULL)
    /\ out' = <<Msg(IF which = "input"
                    THEN "File Error: cannot open %s for input\n"
                    ELSE "File Error: cannot open %s for ouput\n",
                    0, 0, TargetStr(d))>>
    /\ status' = OpenFailStatus(status)
    /\ op' = Op("open_fail", TRUE)
    /\ since' = Failure(since)
    /\ pc' = "sweep"
    /\ UNCHANGED <<termination, bgOpen, procs, fgPid, lastFg>>

\* The child set after fork() returned -1, lines 435-439: no process is added.
ForkFailProcs(ps) == ps

\* Lines 435-439: fork() returns -1.
ExecForkFail(d) ==
    /\ OpensCanSucceed(d)
    /\ out' = <<Msg("fork failed", 0, 0, <<>>)>>
    /\ op' = Op("fork_fail", TRUE)
    /\ pc' = "sweep"
    /\ procs' = ForkFailProcs(procs)
    /\ UNCHANGED <<status, termination, bgOpen, fgPid, lastFg, since>>

\* The pids of no live or unreaped process.
FreePids == {p \in Pids : procs[p].st = "none"}

\* fork() succeeds while the engine has fewer than nproc children (the
\* kernel's limit on the processes of a user); otherwise it returns -1.
CanFork(nproc) == Cardinality(Pids \ FreePids) < nproc

\* The pid fork() returns.  The engine uses a pid only as an identity, so
\* the kernel's choice among the free pids is fixed to the lowest.
ForkPid == CHOOSE p \in FreePids : \A q \in FreePids : p <= q

\* The child as fork() leaves it.
Forked(bg, prog) == [st |-> "forked", bg |-> bg, prog |-> prog, ws |-> <<"none", 0>>]

\* A search that took the last cell holding a value below 1.
FreeSlot_Last(tbl) ==
    IF \E i \in Slots : tbl[i] < 1
    THEN CHOOSE i \in Slots : tbl[i] < 1 /\ \A j \in Slots : j > i => ~(tbl[j] < 1)
    ELSE MAX_PROCESSES

\* A search that took only cells still holding -1.
FreeSlot_UnusedOnly(tbl) ==
    IF \E i \in Slots : tbl[i] = UNUSED
    THEN CHOOSE i \in Slots : tbl[i] = UNUSED /\ \A j \in Slots : j < i => tbl[j] # UNUSED
    ELSE MAX_PROCESSES

\* Lines 511-521: the cell a background pid goes to, the first one holding
\* a value below 1; MAX_PROCESSES when there is none.
FreeSlot(tbl) ==
    IF \E i \in Slots : tbl[i] < 1
    THEN CHOOSE i \in Slots : tbl[i] < 1 /\ \A j \in Slots : j < i => ~(tbl[j] < 1)
    ELSE MAX_PROCESSES

\* Lines 528-549, the parent after waitpid(): wfail is wpid == -1 and ws is
\* what waitStatus holds.  After waitpid(cpid, ..., 0) wfail is FALSE: the
\* child exists, and the engine, which ignores SIGINT and installs no
\* handler, is not interrupted in the call.
AfterWait(st, term, wfail, ws) ==
    [status |-> IF WIFEXITED(ws) THEN ws[2]
                ELSE IF wfail THEN EXIT_FAILURE ELSE st,
     termination |-> IF WIFSIGNALED(ws) THEN ws[2]
                     ELSE IF WIFEXITED(ws) THEN 0 ELSE term,
     out |-> (IF wfail THEN <<Msg("wait failed", 0, 0, <<>>)>> ELSE <<>>)
             \o (IF WIFSIGNALED(ws)
                 THEN <<Msg("terminated by signal %d\n", ws[2], 0, <<>>)>>
                 ELSE <<>>)]

\* Lines 505-519: a background child whose pid finds a cell.
LaunchBackground(d, nproc) ==
    LET cpid == ForkPid
        slot == FreeSlot(bgOpen)
    IN  /\ d.bg
        /\ OpensCanSucceed(d)
        /\ CanFork(nproc)
        /\ slot \in Slots
        /\ bgOpen' = [bgOpen EXCEPT ![slot] = cpid]
        /\ op' = Op("launch_bg", FALSE)
        /\ procs' = [procs EXCEPT ![cpid] = Forked(TRUE, d.prog)]
        /\ out' = <<Msg("background pid is %d\n", cpid, 0, <<>>)>>
        /\ pc' = "sweep"
        /\ UNCHANGED <<status, termination, fgPid, lastFg, since>>

\* Lines 505-549 when no cell holds a value below 1: the loop ends without
\* storing cpid, and wpid and waitStatus are read although waitpid() was
\* never called: wfail and ws are what they happen to hold.
LaunchBackgroundFull(d, nproc, wfail, ws) ==
    LET cpid == ForkPid
        r == AfterWait(status, termination, wfail, ws)
    IN  /\ d.bg
        /\ OpensCanSucceed(d)
        /\ CanFork(nproc)
        /\ FreeSlot(bgOpen) = MAX_PROCESSES
        /\ status' = r.status
        /\ termination' = r.termination
        /\ out' = <<Msg("background pid is %d\n", cpid, 0, <<>>)>> \o r.out
        /\ procs' = [procs EXCEPT ![cpid] = Forked(TRUE, d.prog)]
        /\ op' = Op("launch_bg_full", wfail)
        /\ since' = "overflow"
        /\ pc' = "sweep"
        /\ UNCHANGED <<bgOpen, fgPid, lastFg>>

\* Lines 505, 523-526: a foreground child; the parent blocks in waitpid().
LaunchForeground(d, nproc) ==
    LET cpid == ForkPid
    IN  /\ ~d.bg
        /\ OpensCanSucceed(d)
        /\ CanFork(nproc)
        /\ procs' = [procs EXCEPT ![cpid] = Forked(FALSE, d.prog)]
        /\ fgPid' = cpid
        /\ op' = Op("launch_fg", FALSE)
        /\ out' = <<>>
        /\ pc' = "fgwait"
        /\ UNCHANGED <<status, termination, bgOpen, lastFg, since>>

CmdExecute(buf, args, nproc) ==
    LET d == Directive(buf, args)
    IN  /\ inputArgs' = d.args
        /\ \/ ExecDevNullFail(d)
           \/ \E which \in {"input", "output"} : ExecOpenFail(d, which)
           \/ ExecForkFail(d)
           \/ LaunchBackground(d, nproc)
           \/ \E wfail \in BOOLEAN, ws \in GarbageStatuses :
                 LaunchBackgroundFull(d, nproc, wfail, ws)
           \/ LaunchForeground(d, nproc)

(***************************************************************************)
(* One line: getInput(), parseInput() and processArgs(), main() lines      *)
(* 118-124 and 211-237.  At end of input before any line was read,         *)
(* userInput is read without ever having been written; whatever it then    *)
(* holds is some line, which the choice of a line already covers.          *)
(***************************************************************************)
\* processArgs(), lines 215-236: which handler the first token selects.
Dispatch(buf, args) ==
    IF args[0] = NULL \/ At(buf, args[0]) = "#" THEN "noop"
    ELSE IF CStr(buf, args[0]) = <<"c", "d">> THEN "cd"
    ELSE IF CStr(buf, args[0]) = <<"s", "t", "a", "t", "u", "s">> THEN "status"
    ELSE IF CStr(buf, args[0]) = <<"e", "x", "i", "t">> THEN "exit"
    ELSE "execute"

ReadLine(line, nproc) ==
    /\ pc = "prompt"
    /\ line = EOF => userInput[0] # UNK
    /\ LET P == ParseInput(GetInput(userInput, line), inputArgs)
           h == Dispatch(P.buf, P.args)
       IN  /\ userInput' = P.buf
           /\ \/ h = "noop" /\ NoOp(P.buf, P.args)
              \/ h = "cd" /\ \E ok \in BOOLEAN : CmdChangeDir(P.buf, P.args, ok)
              \/ h = "status" /\ CmdStatus(P.buf, P.args)
              \/ h = "exit" /\ \E oobv \in OobOutcomes : CmdExit(P.buf, P.args, oobv)
              \/ h = "execute" /\ CmdExecute(P.buf, P.args, nproc)

\* Lines 525-549: waitpid(cpid, &waitStatus, 0) returns once the child has
\* terminated.
FgWait ==
    /\ pc = "fgwait"
    /\ procs[fgPid].st = "zombie"
    /\ LET ws == procs[fgPid].ws
           r == AfterWait(status, termination, FALSE, ws)
       IN  /\ status' = r.status
           /\ termination' = r.termination
           /\ out' = r.out
           /\ lastFg' = ws
    /\ procs' = [procs EXCEPT ![fgPid] = NoProc]
    /\ since' = "nothing"
    /\ op' = Op("fg_done", FALSE)
    /\ fgPid' = 0
    /\ pc' = "sweep"
    /\ UNCHANGED <<userInput, inputArgs, bgOpen>>

(***************************************************************************)
(* The children, lines 440-504, and the signals sent to them.              *)
(***************************************************************************)
EngineAlive == pc \in {"sweep", "prompt", "fgwait"}

\* The engine blocks in fgets() and in waitpid(cpid, ..., 0) only.  Between
\* two blocking calls it reads no state of a child, so a step of a child
\* taken there commutes with the engine's steps: the steps of the children
\* are interleaved at the blocking calls.
Blocked == pc \in {"prompt", "fgwait"}

\* A child that restored the default disposition whatever its kind.
ChildDisposition_Default(bg) == "dfl"

\* Lines 445-456: the disposition of SIGINT the child installs.
ChildDisposition(bg) == IF bg THEN "ign" ELSE "dfl"

\* The programs exec finds.
Programs == {<<"p">>}

\* Lines 445-503: sigaction, dup2 and exec.  When exec finds the program its
\* image runs; otherwise exec returns and the child calls exit(EXIT_FAILURE).
ChildExec(p) ==
    /\ Blocked
    /\ procs[p].st = "forked"
    /\ procs' = [procs EXCEPT ![p] =
                   IF procs[p].prog \in Programs
                   THEN [procs[p] EXCEPT !.st = "running", !.prog = <<>>]
                   ELSE Zombie(Exited(EXIT_FAILURE))]
    /\ UNCHANGED <<pc, userInput, inputArgs, status, termination, bgOpen, fgPid,
                   op, out, lastFg, since>>

\* The program image ends: it exits with a code, or a SIGKILL from outside
\* the engine terminates it.
ChildFinish(p, ws) ==
    /\ Blocked
    /\ procs[p].st = "running"
    /\ ws \in {Exited(n) : n \in ProgramCodes} \cup {Signaled(SIGKILL)}
    /\ procs' = [procs EXCEPT ![p] = Zombie(ws)]
    /\ UNCHANGED <<pc, userInput, inputArgs, status, termination, bgOpen, fgPid,
                   op, out, lastFg, since>>

\* The disposition of SIGINT in a live child: fork() leaves it the
\* parent's; the child's sigaction(), line 456, installs its own; exec
\* keeps an ignored signal ignored and a default one default.
Disposition(proc) ==
    IF proc.st = "forked" THEN EngineDisposition ELSE ChildDisposition(proc.bg)

\* What SIGINT does to a live child.
Interrupted(proc) ==
    IF Disposition(proc) = "dfl" THEN Zombie(Signaled(SIGINT)) ELSE proc

\* SIGINT is delivered to child p.
InterruptChild(p) ==
    /\ Blocked
    /\ Live(procs[p])
    /\ procs' = [procs EXCEPT ![p] = Interrupted(procs[p])]
    /\ UNCHANGED <<pc, userInput, inputArgs, status, termination, bgOpen, fgPid,
                   op, out, lastFg, since>>

\* SIGINT is delivered to the engine.
InterruptEngine ==
    /\ EngineAlive
    /\ pc' = IF EngineDisposition = "dfl" THEN "killed" ELSE pc
    /\ UNCHANGED <<userInput, inputArgs, status, termination, bgOpen, procs, fgPid,
                   op, out, lastFg, since>>

\* The most children a session over every kind of line has at a time.
LineChildren == 1

\* One step of the engine, of a child or of the user, in a session whose
\* lines are drawn from L and whose children number at most nproc.
Step(L, nproc) ==
    \/ \E oobv \in OobOutcomes : Sweep(oobv)
    \/ \E line \in L : ReadLine(line, nproc)
    \/ FgWait
    \/ \E p \in Pids : ChildExec(p)
    \/ \E p \in Pids, ws \in WaitStatuses : ChildFinish(p, ws)
    \/ \E p \in Pids : InterruptChild(p)
    \/ InterruptEngine

\* Job control: enough children to fill the table and overflow it.
Next == Step(JobLines, MAX_PROCESSES + 1)

Spec == Init /\ [][Next]_vars

\* Every kind of line, end of input included.
NextLine == Step(Lines \cup {EOF}, LineChildren)

LineSpec == Init /\ [][NextLine]_vars

\* Progress.  The engine keeps running: a sweep and the return of a
\* foreground wait are enabled until they are taken (weak fairness).  The
\* kernel schedules every child whatever the engine does, so a child that
\* can take a step again and again takes it (strong fairness).  Nothing
\* makes the user type a line.
LiveLines == { Pad(l) : l \in { L_p, L_p_bg } }

NextLive == Step(LiveLines, MAX_PROCESSES)

Fairness ==
    /\ WF_vars(\E oobv \in OobOutcomes : Sweep(oobv))
    /\ WF_vars(FgWait)
    /\ \A p \in Pids : SF_vars(ChildExec(p))
    /\ \A p \in Pids : SF_vars(\E ws \in WaitStatuses : ChildFinish(p, ws))

LiveSpec == Init /\ [][NextLive]_vars /\ Fairness

(***************************************************************************)
(* Properties.                                                             *)
(*                                                                         *)
(* Every step of the engine moves pc, and no step of a child or of the     *)
(* user does; op and out describe the handler that ran last.               *)
(***************************************************************************)
ExitValue(n) == Msg("exit value %d\n", n, 0, <<>>)
TermSignal(s) == Msg("terminated by signal %d\n", s, 0, <<>>)

\* The handler named name has just returned to the prompt loop.
JustDid(name) == pc = "sweep" /\ op.name = name

\* The step is the completion of a foreground wait.
FgWaitStep == pc = "fgwait" /\ pc' # pc

\* The step is a background launch that found no cell for the pid.
OverflowStep == pc = "prompt" /\ pc' # pc /\ op'.name = "launch_bg_full"

\* The step stores EXIT_FAILURE in status after a failure it reports: cd to
\* an invalid path, a failed open(), or a sweep one of whose waits failed.
StoresFailure ==
    /\ status' = EXIT_FAILURE
    /\ termination' = termination
    /\ \/ pc = "prompt" /\ op'.name \in {"cd", "open_fail"} /\ op'.err
       \/ pc = "sweep" /\ \E i \in DOMAIN out' : out'[i].fmt = "wait failed\n"

OutcomeChanges == status' # status \/ termination' # termination

C3_StatusReportsLastSignal ==
    (JustDid("status") /\ WIFSIGNALED(lastFg)) => out = <<TermSignal(lastFg[2])>>

\* C4: once the engine has exited, no background child is alive.
C4_NoBackgroundChildOutlivesEngine ==
    pc = "exited" => \A p \in Pids : ~(Live(procs[p]) /\ procs[p].bg)

\* The lines that hold only a comment or only whitespace characters.
NoOpLines == {Pad(L_blank), Pad(L_tab), Pad(L_comment)}

\* C6: processing a line that holds only a comment or only whitespace
\* spawns no process and leaves status, termination and every cell of the
\* job table unchanged.
C6_NoOpLineChangesNothing ==
    [][\A line \in NoOpLines :
          ReadLine(line, LineChildren)
              => UNCHANGED <<status, termination, bgOpen, procs>>]_vars

\* The step in which a call of cmdExecute() ends: it returns without a
\* child, returns after a background launch, or its foreground wait
\* completes.
LauncherReturns ==
    /\ pc' # pc
    /\ \/ pc = "prompt"
          /\ op'.name \in {"open_fail", "fork_fail", "launch_bg", "launch_bg_full"}
       \/ pc = "fgwait"

\* The three outcomes of the launcher.
PidRecorded == \E s \in Slots : bgOpen'[s] # bgOpen[s]
FgOutcomeWritten == pc = "fgwait" /\ lastFg' = procs[fgPid].ws
ErrorReported == op'.err

ExactlyOne(a, b, c) == (a /\ ~b /\ ~c) \/ (~a /\ b /\ ~c) \/ (~a /\ ~b /\ c)

\* C7: every call of the launcher ends in exactly one of: the pid recorded
\* in a cell of the job table, a foreground outcome written, an error
\* reported; a background launch into a full table reports an error.
C7_LauncherOutcome ==
    [][LauncherReturns => ExactlyOne(PidRecorded, FgOutcomeWritten, ErrorReported)]_vars

\* The step is a launch that fails before a child exists.
FailedLaunchStep ==
    pc = "prompt" /\ pc' # pc /\ op'.name \in {"open_fail", "fork_fail"}

\* The one message a failed launch prints.
LaunchErrors ==
    {"cannot open /dev/null\n", "File Error: cannot open %s for input\n",
     "File Error: cannot open %s for ouput\n", "fork failed"}

FailedLaunchReported == Len(out') = 1 /\ out'[1].fmt \in LaunchErrors

C9_StatusAfterInvalidCd ==
    [][(pc = "prompt" /\ op.name = "cd" /\ op.err
            /\ ReadLine(Pad(L_status), MAX_PROCESSES + 1))
          => out' = <<ExitValue(EXIT_FAILURE)>>]_vars

\* C10: SIGINT never terminates the engine; a child it terminates was a
\* foreground child that had installed the default disposition.
C10_Interrupt ==
    [][/\ pc' # "killed"
       /\ \A p \in Pids :
             (procs'[p] # procs[p] /\ procs'[p] = Zombie(Signaled(SIGINT)))
                 => (procs[p].st = "running" /\ ~procs[p].bg)]_vars

\* SIGINT has terminated the foreground child while a background child,
\* which ignores it, runs on.
C10_Witness ==
    /\ pc = "fgwait"
    /\ procs[fgPid] = Zombie(Signaled(SIGINT))
    /\ \E q \in Pids : procs[q].st = "running" /\ procs[q].bg

\* The step forks a background child.
BgLaunchStep ==
    \E p \in Pids : procs[p].st = "none" /\ procs'[p].st = "forked" /\ procs'[p].bg

\* A cell of the job table is Empty or Unused.
HasFreeCell == \E s \in Slots : bgOpen[s] \in {IS_PROCESS_FINISHED, UNUSED}

\* The prompt loop keeps iterating: the engine is at the top of the loop
\* again and again.
LoopIterates == []<>(pc = "sweep")

\* C5: a background launch made while a cell is Empty or Unused stores the
\* pid of the child in the table and returns to the prompt loop while the
\* child is still alive; if the prompt loop keeps iterating, a later sweep
\* tombstones the cell.
C5_BackgroundLaunch ==
    /\ [][(BgLaunchStep /\ HasFreeCell)
             => /\ pc' = "sweep"
                /\ \E s \in Slots, p \in Pids :
                      /\ bgOpen[s] # p /\ bgOpen'[s] = p
                      /\ procs[p].st = "none" /\ Live(procs'[p])]_vars
    /\ LoopIterates
          => \A s \in Slots, p \in Pids :
                (bgOpen[s] = p) ~> (bgOpen[s] = IS_PROCESS_FINISHED)

\* A sweep has just tombstoned the cell of a background child and reported
\* it, and the engine is back at the prompt.
C5_Witness ==
    /\ pc = "prompt" /\ op.name = "launch_bg"
    /\ \E s \in Slots : bgOpen[s] = IS_PROCESS_FINISHED
    /\ \E i \in DOMAIN out : out[i].fmt = "background pid %d is done: "

\* The step is a handler's return after an error it reported: an invalid cd
\* path, a failed open, a failed fork, a failed wait.
ErrorStep == pc = "prompt" /\ pc' # pc /\ op'.err /\ op'.name # "exit"

\* The step is the exec of child p failing: the child was forked for a
\* program exec does not find, and the step is its own.
ExecFails(p) ==
    /\ procs[p].st = "forked" /\ procs[p].prog \notin Programs
    /\ procs'[p] # procs[p] /\ pc' = pc

\* C11: the engine stops only in the exit builtin, by exit(EXIT_SUCCESS);
\* after a reported error it is back at the top of the loop, and the sweep
\* that follows brings it to the prompt; a child whose exec fails
\* terminates with EXIT_FAILURE and nothing else changes.
C11_EngineStopsOnlyByExit ==
    [][/\ (EngineAlive /\ ~EngineAlive')
             => (pc = "prompt" /\ op'.name = "exit" /\ pc' = "exited")
       /\ ErrorStep => pc' = "sweep"
       /\ (pc = "sweep" /\ pc' # pc) => pc' = "prompt"
       /\ \A p \in Pids :
             ExecFails(p) => /\ procs'[p] = Zombie(Exited(EXIT_FAILURE))
                             /\ \A q \in Pids \ {p} : procs'[q] = procs[q]]_vars


\* The message formats as stated.
DoneExitLine(p, v) ==
    "background pid " \o ToString(p) \o " is done: exit value " \o ToString(v) \o "\n"
DoneSignalLine(p, s) ==
    "background pid " \o ToString(p) \o " is done: terminated by signal "
        \o ToString(s) \o "\n"
SignalLine(s) == "terminated by signal " \o ToString(s) \o "\n"
ExitLine(v) == "exit value " \o ToString(v) \o "\n"
LaunchLine_Stated(p) == "background pid " \o ToString(p) \o "\n"
LaunchLine(p) == "background pid is " \o ToString(p) \o "\n"
PromptText == ": "

\* The notices a sweep owes: one line for each cell before the first -1
\* whose child has terminated, in the order of the cells.
RECURSIVE ReapedText(_)
ReapedText(i) ==
    IF i >= ScanEnd(bgOpen) \/ i \notin Slots THEN ""
    ELSE (IF bgOpen[i] > 0 /\ procs[bgOpen[i]].st = "zombie"
          THEN LET ws == procs[bgOpen[i]].ws
               IN  IF WIFEXITED(ws) THEN DoneExitLine(bgOpen[i], ws[2])
                   ELSE DoneSignalLine(bgOpen[i], ws[2])
          ELSE "")
         \o ReapedText(i + 1)

\* The formats of the sweep, of a signaled foreground command and of status.
ReportFormats ==
    /\ (pc = "sweep" /\ pc' = "prompt")
          => StdoutText(out') = ReapedText(0) \o PromptText
    /\ (FgWaitStep /\ WIFSIGNALED(procs[fgPid].ws))
          => StdoutText(out') = SignalLine(procs[fgPid].ws[2])
    /\ (pc = "prompt" /\ pc' # pc /\ op'.name = "status")
          => StdoutText(out') \in {ExitLine(status), SignalLine(termination)}

\* The step is a background launch; the pid of the child is ForkPid.
BgLaunchReturns ==
    pc = "prompt" /\ pc' # pc /\ op'.name \in {"launch_bg", "launch_bg_full"}

\* C12, as stated: a reaped job is reported as "background pid P is done:
\* exit value V" or "... terminated by signal S", a signaled foreground
\* command as "terminated by signal S", status after a normal exit as "exit
\* value V", and a background launch as "background pid P".
C12_MessageFormatsAsStated ==
    [][/\ ReportFormats
       /\ BgLaunchReturns => Printf(out'[1]) = LaunchLine_Stated(ForkPid)]_vars

\* C12, amended: the same, with a background launch reported as
\* "background pid is P".
C12_MessageFormats ==
    [][/\ ReportFormats
       /\ BgLaunchReturns => Printf(out'[1]) = LaunchLine(ForkPid)
       /\ (BgLaunchReturns /\ op'.name = "launch_bg") => Len(out') = 1]_vars

\* A sweep has just reported two finished background jobs, one that exited
\* and one that a signal terminated, and shown the prompt.
C12_Witness ==
    /\ pc = "prompt"
    /\ StdoutText(out) = DoneExitLine(1, 7) \o DoneSignalLine(2, SIGKILL) \o PromptText


\* The step is a reap sweep.
SweepStep == pc = "sweep" /\ pc' # pc

\* The job of cell s is found finished by waitpid(curPid, ..., WNOHANG).
FoundFinished(s) == bgOpen[s] > 0 /\ procs[bgOpen[s]].st = "zombie"

\* C13: a reap sweep changes only the cells whose job the non-blocking
\* check finds finished, and sets each of them to IS_PROCESS_FINISHED;
\* every other cell, status and termination are unchanged.
C13_SweepFrame ==
    [][SweepStep
          => /\ \A s \in Slots :
                   IF FoundFinished(s) /\ s < ScanEnd(bgOpen)
                   THEN bgOpen'[s] = IS_PROCESS_FINISHED
                   ELSE bgOpen'[s] = bgOpen[s]
             /\ status' = status
             /\ termination' = termination]_vars


\* C14: the cells holding -1 form a suffix of the job table: no cell
\* holding a pid or IS_PROCESS_FINISHED comes after a cell holding -1, so
\* that every cell holding a pid lies before the index where a scan for the
\* first -1 stops.
C14_UnusedSuffix ==
    /\ \A i, j \in Slots : (i < j /\ bgOpen[i] = UNUSED) => bgOpen[j] = UNUSED
    /\ \A s \in Slots : bgOpen[s] > 0 => s < ScanEnd(bgOpen)

\* A tombstoned cell is followed by a cell never used, with a background
\* child launched and reaped.
C14_Witness ==
    /\ pc = "prompt"
    /\ bgOpen[0] = IS_PROCESS_FINISHED
    /\ bgOpen[MAX_PROCESSES - 1] = UNUSED
    /\ \E i \in DOMAIN out : out[i].fmt = "background pid %d is done: "


\* Cell s is the lowest cell that is Empty or Unused.
LowestFree(s) ==
    /\ bgOpen[s] \in {IS_PROCESS_FINISHED, UNUSED}
    /\ \A j \in Slots : j < s => bgOpen[j] \notin {IS_PROCESS_FINISHED, UNUSED}

\* The step stores the pid of the child it forks in cell s and changes no
\* other cell.
StoresPidIn(s) ==
    /\ \E p \in Pids :
          procs[p].st = "none" /\ procs'[p].st = "forked" /\ bgOpen'[s] = p
    /\ \A j \in Slots \ {s} : bgOpen'[j] = bgOpen[j]

\* C15: a background launch that forks its child stores the pid in the
\* lowest cell that is Empty or Unused, a tombstoned cell before any cell
\* never used, and changes no other cell.
C15_LaunchStoresPid ==
    [][BgLaunchStep => \E s \in Slots : LowestFree(s) /\ StoresPidIn(s)]_vars


\* The positions of the completion notices for pid p among msgs.
NoticesFor(p, msgs) ==
    {i \in DOMAIN msgs : msgs[i].fmt = "background pid %d is done: " /\ msgs[i].a = p}

\* The step prints a completion notice for p.
NoticePrinted(p) == pc' # pc /\ NoticesFor(p, out') # {}

\* The last sweep reported p and the engine is at the prompt.
Noticed(p) == pc = "prompt" /\ NoticesFor(p, out) # {}

BgLines == {Pad(L_p_bg), Pad(L_p_x_bg), Pad(L_p_bg_x)}

\* The tokens of a line typed at the prompt.
TokensOf(line) ==
    LET P == ParseInput(GetInput(userInput, line), inputArgs)
    IN  ArgVector(P.buf, P.args)

NotAmpersand(tok) == tok # <<"&">>

\* The step forks a child for the line.
ChildForked == op'.name \in {"launch_bg", "launch_bg_full", "launch_fg"}

\* C17: a command without redirection whose tokens hold exactly one "&",
\* at any position, is launched in the background, and the argument vector
\* of its child is the token list without the "&".
C17_AmpersandRemoved ==
    [][\A line \in BgLines :
          (ReadLine(line, LineChildren) /\ ChildForked)
             => /\ BgLaunchStep
                /\ ArgVector(userInput', inputArgs')
                      = SelectSeq(TokensOf(line), NotAmpersand)]_vars


\* The engine is about to scan the table: the sweep at the top of the loop,
\* or the scan of cmdExit() when the line read at the prompt is exit.
AboutToScan == pc \in {"sweep", "prompt"}

\* C18: the reap sweep and the scan of exit read only the cells 0 to
\* MAX_PROCESSES - 1, that is, the last cell they read, the one where they
\* stop, is a cell of the table, and they terminate.
C18_ScansInBounds ==
    /\ AboutToScan => ScanEnd(bgOpen) \in Slots
    /\ pc # "crashed"


\* What a line typed at the prompt makes the launcher do when the buffer
\* and the argument list hold buf and args: the program, the vector handed
\* to exec, the path of the redirection target and the background flag.
LaunchDirective(buf, args, line) ==
    LET P == ParseInput(GetInput(buf, line), args)
        d == Directive(P.buf, P.args)
    IN  [prog |-> d.prog,
         argv |-> ExecArgv(d),
         path |-> IF d.rIn \/ d.rOut THEN TargetStr(d) ELSE <<>>,
         bg   |-> d.bg]

\* The lines that are commands for the launcher.
IsCommand(line) ==
    LET P == ParseInput(GetInput(userInput, line), inputArgs)
    IN  Dispatch(P.buf, P.args) = "execute"

\* The directive of a line in the run where it is the first line typed.
FirstLineDirective(line) ==
    LaunchDirective([i \in BufIdx |-> UNK], [k \in ArgIdx |-> UNINIT], line)

\* C19: the launch directive of a command is determined by the tokens of
\* its line: whatever lines came before, the line typed at the prompt gets
\* the directive it gets in the run where it is the first line.
C19_DirectiveFromLineOnly ==
    pc = "prompt"
        => \A line \in Lines :
              IsCommand(line)
                 => LaunchDirective(userInput, inputArgs, line)
                       = FirstLineDirective(line)


=============================================================================
